---------------------------- MODULE Spec2Model ----------------------------
(***************************************************************************)
(* Model of swagger_generator.py (SwaggerToFrontendGenerator): the         *)
(* identifier synthesizer with its stability registry, and the schema      *)
(* type resolver.                                                          *)
(*                                                                         *)
(* Python strings that the code inspects character by character            *)
(* (paths, methods, operationIds, function names) are sequences of         *)
(* one-character strings.  Type expressions, which the code only           *)
(* concatenates, are TLA+ strings.                                         *)
(***************************************************************************)
EXTENDS Integers, Sequences, FiniteSets, TLC

(***************************************************************************)
(* Characters and the str methods the code uses (ASCII alphabet).          *)
(***************************************************************************)
LowerChars ==
    << "a","b","c","d","e","f","g","h","i","j","k","l","m",
       "n","o","p","q","r","s","t","u","v","w","x","y","z" >>

UpperChars ==
    << "A","B","C","D","E","F","G","H","I","J","K","L","M",
       "N","O","P","Q","R","S","T","U","V","W","X","Y","Z" >>

DigitChars ==
    << "0","1","2","3","4","5","6","7","8","9" >>

Range(s) == { s[i] : i \in DOMAIN s }

LowerSet == Range(LowerChars)

UpperSet == Range(UpperChars)

DigitSet == Range(DigitChars)

IsLower(c) == c \in LowerSet

IsUpper(c) == c \in UpperSet

IsDigit(c) == c \in DigitSet

IsAlnum(c) == c \in LowerSet \/ c \in UpperSet \/ c \in DigitSet

PosIn(c, s) == CHOOSE i \in DOMAIN s : s[i] = c

ToLowerC(c) == IF c \in UpperSet THEN LowerChars[PosIn(c, UpperChars)] ELSE c

ToUpperC(c) == IF c \in LowerSet THEN UpperChars[PosIn(c, LowerChars)] ELSE c

Lower(s) == [ i \in DOMAIN s |-> ToLowerC(s[i]) ]

Upper(s) == [ i \in DOMAIN s |-> ToUpperC(s[i]) ]

\* str.capitalize(): first character upper-cased, the rest lower-cased
Capitalize(s) == [ i \in DOMAIN s |-> IF i = 1 THEN ToUpperC(s[i]) ELSE ToLowerC(s[i]) ]

\* sp[:1].upper() + sp[1:].lower()
UpperFirstLowerRest(s) == Capitalize(s)

StartsWith(s, p) == Len(s) >= Len(p) /\ SubSeq(s, 1, Len(p)) = p

EndsWith(s, p) == Len(s) >= Len(p) /\ SubSeq(s, Len(s) - Len(p) + 1, Len(s)) = p

Contains(seq, x) == \E i \in DOMAIN seq : seq[i] = x

RECURSIVE Concat(_)
Concat(parts) ==
    IF parts = << >> THEN << >> ELSE Head(parts) \o Concat(Tail(parts))

RECURSIVE Join(_, _)
Join(parts, sep) ==
    IF parts = << >> THEN << >>
    ELSE IF Len(parts) = 1 THEN parts[1]
    ELSE parts[1] \o sep \o Join(Tail(parts), sep)

\* str.split(sep) for a one-character separator: empty pieces are kept
RECURSIVE SplitFrom(_, _, _, _)
SplitFrom(s, sep, i, cur) ==
    IF i > Len(s) THEN << cur >>
    ELSE IF s[i] = sep THEN << cur >> \o SplitFrom(s, sep, i + 1, << >>)
    ELSE SplitFrom(s, sep, i + 1, Append(cur, s[i]))

Split(s, sep) == SplitFrom(s, sep, 1, << >>)

\* the index of the first sep in s at or after i, or 0
RECURSIVE FindFrom(_, _, _)
FindFrom(s, sep, i) ==
    IF i > Len(s) THEN 0
    ELSE IF s[i] = sep THEN i
    ELSE FindFrom(s, sep, i + 1)

\* str.split(sep, 1): at most one split, at the first separator
SplitOnce(s, sep) ==
    LET i == FindFrom(s, sep, 1)
    IN  IF i = 0 THEN << s >>
        ELSE << SubSeq(s, 1, i - 1), SubSeq(s, i + 1, Len(s)) >>

\* str.strip(c)
RECURSIVE LStrip(_, _)
LStrip(s, c) == IF s # << >> /\ Head(s) = c THEN LStrip(Tail(s), c) ELSE s

RECURSIVE RStrip(_, _)
RStrip(s, c) ==
    IF s # << >> /\ s[Len(s)] = c THEN RStrip(SubSeq(s, 1, Len(s) - 1), c) ELSE s

Strip(s, c) == RStrip(LStrip(s, c), c)

\* str(i) for i >= 0
RECURSIVE IntToStr(_)
IntToStr(i) ==
    IF i < 10 THEN << DigitChars[i + 1] >>
    ELSE IntToStr(i \div 10) \o << DigitChars[(i % 10) + 1] >>


(***************************************************************************)
(* Identifier synthesis: the pure helpers of _build_function_name.         *)
(***************************************************************************)
IsParamSegment(part) == StartsWith(part, << "{" >>) /\ EndsWith(part, << "}" >>)

\* part[1:-1]
ParamName(part) == SubSeq(part, 2, Len(part) - 1)

convert_path_to_url(path) ==
    LET parts == Split(path, "/")
        new_parts == [ i \in DOMAIN parts |->
                         IF IsParamSegment(parts[i])
                         THEN << "$","{","p","a","t","h","P","a","r","a","m","s","." >> \o ParamName(parts[i]) \o << "}" >>
                         ELSE parts[i] ]
    IN  Join(new_parts, << "/" >>)

ModuleKey(module_name) ==
    LET m == IF module_name = << >> THEN << "D","e","f","a","u","l","t" >> ELSE module_name
    IN  Lower([ i \in DOMAIN m |-> IF IsAlnum(m[i]) THEN m[i] ELSE "_" ])

GenericOperationIds ==
    { << "g","e","t" >>, << "s","a","v","e" >>, << "u","p","d","a","t","e" >>, << "d","e","l","e","t","e" >>, << "l","i","s","t" >>, << "p","a","g","e" >>,
      << "d","e","t","a","i","l" >>, << "i","n","f","o" >>, << "q","u","e","r","y" >>, << "r","e","m","o","v","e" >>, << "c","o","p","y" >> }

is_generic_operation_id(op_id) ==
    IF op_id = << >> THEN TRUE ELSE Lower(op_id) \in GenericOperationIds

AllDigits(s) == s # << >> /\ \A i \in DOMAIN s : IsDigit(s[i])

SequentialVerbs ==
    { << "g","e","t" >>, << "s","a","v","e" >>, << "u","p","d","a","t","e" >>, << "d","e","l","e","t","e" >>, << "l","i","s","t" >>, << "p","a","g","e" >>, << "d","e","t","a","i","l" >> }

\* is_sequential_operation_id without its third pattern, <verb><digits>
is_sequential_operation_id_no_verb_rule(op_id) ==
    IF op_id = << >> THEN TRUE
    ELSE IF AllDigits(op_id) THEN TRUE
    ELSE \E i \in DOMAIN op_id :
             /\ op_id[i] \in { "_", "-" }
             /\ AllDigits(SubSeq(op_id, i + 1, Len(op_id)))

is_sequential_operation_id(op_id) ==
    IF op_id = << >> THEN TRUE
    \* re.fullmatch(r'\d+', op_id)
    ELSE IF AllDigits(op_id) THEN TRUE
    \* re.search(r'[_-][0-9]+$', op_id)
    ELSE IF \E i \in DOMAIN op_id :
                /\ op_id[i] \in { "_", "-" }
                /\ AllDigits(SubSeq(op_id, i + 1, Len(op_id)))
         THEN TRUE
    \* re.fullmatch(r'(get|save|update|delete|list|page|detail)[-_]?\d+', op_id, re.IGNORECASE)
    ELSE IF \E v \in SequentialVerbs :
                /\ StartsWith(Lower(op_id), v)
                /\ LET rest == SubSeq(op_id, Len(v) + 1, Len(op_id))
                   IN  \/ AllDigits(rest)
                       \/ /\ rest # << >>
                          /\ rest[1] \in { "-", "_" }
                          /\ AllDigits(Tail(rest))
         THEN TRUE
    ELSE FALSE

normalize_identifier(text) ==
    IF text = << >> THEN << "f","n" >>
    ELSE LET ident == [ i \in DOMAIN text |->
                          IF IsAlnum(text[i]) \/ text[i] = "_" \/ text[i] = "$"
                          THEN text[i] ELSE "_" ]
         IN  IF IsDigit(ident[1]) THEN << "_" >> \o ident ELSE ident

NonEmpty(s) == s # << >>

\* the parts of to_camel with case-insensitive consecutive duplicates dropped
RECURSIVE DedupParts(_, _)
DedupParts(parts, acc) ==
    IF parts = << >> THEN acc
    ELSE IF acc # << >> /\ Lower(acc[Len(acc)]) = Lower(Head(parts))
         THEN DedupParts(Tail(parts), acc)
         ELSE DedupParts(Tail(parts), Append(acc, Head(parts)))

\* re.sub(r'([a-z0-9])([A-Z])', r'\1_\2', part)
RECURSIVE SplitCamelHumps(_, _)
SplitCamelHumps(part, i) ==
    IF i > Len(part) THEN << >>
    ELSE IF i < Len(part) /\ (IsLower(part[i]) \/ IsDigit(part[i])) /\ IsUpper(part[i + 1])
         THEN << part[i], "_" >> \o SplitCamelHumps(part, i + 1)
         ELSE << part[i] >> \o SplitCamelHumps(part, i + 1)

\* re.split(r'[_\s]+', s), empty pieces dropped
SplitWords(s) ==
    SelectSeq(Split([ i \in DOMAIN s |-> IF s[i] = " " THEN "_" ELSE s[i] ], "_"), NonEmpty)

CamelRest(part) ==
    LET subparts == SplitWords(SplitCamelHumps(part, 1))
    IN  Concat([ i \in DOMAIN subparts |-> UpperFirstLowerRest(subparts[i]) ])

to_camel(text) ==
    LET replaced == [ i \in DOMAIN text |->
                        IF text[i] \in { "/", "-" } THEN "_" ELSE text[i] ]
        parts == DedupParts(SelectSeq(Split(replaced, "_"), NonEmpty), << >>)
    IN  IF parts = << >> THEN << "f","n" >>
        ELSE LET first == Lower(parts[1])
                 rest == Tail(parts)
                 rest_tokens == [ i \in DOMAIN rest |-> CamelRest(rest[i]) ]
             IN  normalize_identifier(first \o Concat(rest_tokens))

GenericSegments == { << "a","p","i" >>, << "v","1" >>, << "v","2" >>, << "v","3" >>, << "a","p","p" >> }

ActionTokens ==
    { << "s","a","v","e" >>, << "d","e","l","e","t","e" >>, << "r","e","m","o","v","e" >>, << "l","i","s","t" >>, << "p","a","g","e" >>, << "c","o","p","y" >>, << "b","y","I","d" >>,
      << "b","y","A","l","i","a","s" >>, << "s","e","a","r","c","h" >>, << "q","u","e","r","y" >>, << "u","p","d","a","t","e" >>, << "d","e","t","a","i","l" >>, << "i","n","f","o" >>, << "d","e","l" >> }

\* the order in which _build_short_name looks for an action among the tokens
ActionScanOrder ==
    << << "l","i","s","t" >>, << "p","a","g","e" >>, << "s","a","v","e" >>, << "d","e","l","e","t","e" >>, << "c","o","p","y" >>, << "b","y","I","d" >>, << "b","y","A","l","i","a","s" >>,
       << "s","e","a","r","c","h" >>, << "q","u","e","r","y" >>, << "u","p","d","a","t","e" >>, << "r","e","m","o","v","e" >>, << "d","e","l" >> >>

NoAction == << >>

NotParam(s) == ~IsParamSegment(s)

NotGeneric(s) == s \notin GenericSegments

\* segs = [s for s in path.strip('/').split('/') if s]
PathSegs(path) == SelectSeq(Split(Strip(path, "/"), "/"), NonEmpty)

\* tokens: segments that are neither placeholders nor generic
PathTokens(path) == SelectSeq(SelectSeq(PathSegs(path), NotParam), NotGeneric)

MethodPrefix(method) ==
    LET method_lower == Lower(method)
    IN  IF method_lower = << "g","e","t" >> THEN << "g","e","t" >>
        ELSE IF method_lower = << "p","o","s","t" >> THEN << "q","u","e","r","y" >>
        ELSE IF method_lower \in { << "p","u","t" >>, << "p","a","t","c","h" >> } THEN << "u","p","d","a","t","e" >>
        ELSE IF method_lower = << "d","e","l","e","t","e" >> THEN << "r","e","m","o","v","e" >>
        ELSE method_lower

NameSuffix(action, segs) ==
    IF action = << "b","y","I","d" >> \/ Contains(segs, << "b","y","I","d" >>) THEN << "B","y","I","d" >>
    ELSE IF action = << "b","y","A","l","i","a","s" >> \/ Contains(segs, << "b","y","A","l","i","a","s" >>) THEN << "B","y","A","l","i","a","s" >>
    ELSE << >>

build_short_name(path, method) ==
    LET segs == PathSegs(path)
        tokens0 == PathTokens(path)
        lastIsAction == tokens0 # << >> /\ tokens0[Len(tokens0)] \in ActionTokens
        scanHits == { i \in DOMAIN ActionScanOrder : Contains(tokens0, ActionScanOrder[i]) }
        action == IF tokens0 = << >> THEN NoAction
                  ELSE IF lastIsAction THEN tokens0[Len(tokens0)]
                  ELSE IF scanHits # {}
                       THEN ActionScanOrder[CHOOSE i \in scanHits : \A j \in scanHits : i <= j]
                       ELSE NoAction
        tokens == IF lastIsAction THEN SubSeq(tokens0, 1, Len(tokens0) - 1) ELSE tokens0
        resource0 == IF tokens # << >> THEN tokens[Len(tokens)] ELSE << "r","e","s","o","u","r","c","e" >>
        resource == IF resource0 \in { << "d","a","t","a" >>, << "i","n","f","o" >>, << "d","e","t","a","i","l" >>, << "g","r","o","u","p" >>, << "l","i","s","t" >> }
                       /\ Len(tokens) >= 2
                    THEN tokens[Len(tokens) - 1] \o << "_" >> \o resource0
                    ELSE resource0
        prefix == IF action = << "l","i","s","t" >> THEN << "l","i","s","t" >>
                  ELSE IF action = << "p","a","g","e" >> THEN << "p","a","g","e" >>
                  ELSE IF action = << "s","a","v","e" >> THEN << "s","a","v","e" >>
                  ELSE IF action \in { << "d","e","l","e","t","e" >>, << "r","e","m","o","v","e" >>, << "d","e","l" >> } THEN << "d","e","l","e","t","e" >>
                  ELSE IF action = << "c","o","p","y" >> THEN << "c","o","p","y" >>
                  ELSE IF action \in { << "s","e","a","r","c","h" >>, << "q","u","e","r","y" >> } THEN << "q","u","e","r","y" >>
                  ELSE IF action = << "u","p","d","a","t","e" >> THEN << "u","p","d","a","t","e" >>
                  ELSE IF action \in { << "b","y","I","d" >>, << "b","y","A","l","i","a","s" >> } THEN << "g","e","t" >>
                  ELSE MethodPrefix(method)
        suffix == NameSuffix(action, segs)
        tail == IF action # NoAction
                   /\ action \notin { << "l","i","s","t" >>, << "p","a","g","e" >>, << "s","a","v","e" >>, << "d","e","l","e","t","e" >>, << "r","e","m","o","v","e" >>,
                                      << "d","e","l" >>, << "c","o","p","y" >>, << "b","y","I","d" >>, << "b","y","A","l","i","a","s" >>, << "q","u","e","r","y" >>,
                                      << "u","p","d","a","t","e" >>, << "d","e","t","a","i","l" >>, << "i","n","f","o" >> }
                THEN << "_" >> \o action ELSE << >>
    IN  to_camel(prefix \o << "_" >> \o resource \o tail \o suffix)

\* the parts of a path that the fallback candidates of _build_function_name use
FallbackParts(path, method) ==
    LET segs == PathSegs(path)
        tokens == PathTokens(path)
        n == Len(tokens)
        lastIsAction == n > 0 /\ tokens[n] \in ActionTokens
        action == IF lastIsAction THEN tokens[n] ELSE NoAction
        resource0 == IF n > 0 THEN tokens[n] ELSE << "r","e","s","o","u","r","c","e" >>
        resource == IF lastIsAction /\ n >= 2 THEN tokens[n - 1] ELSE resource0
        parent0 == IF n >= 2 THEN tokens[n - 1] ELSE << >>
        parent == IF lastIsAction /\ n >= 3 THEN tokens[n - 2] ELSE parent0
        prefix == IF action = << "l","i","s","t" >> THEN << "l","i","s","t" >>
                  ELSE IF action = << "p","a","g","e" >> THEN << "p","a","g","e" >>
                  ELSE IF action = << "s","a","v","e" >> THEN << "s","a","v","e" >>
                  ELSE IF action \in { << "d","e","l","e","t","e" >>, << "r","e","m","o","v","e" >>, << "d","e","l" >> } THEN << "d","e","l","e","t","e" >>
                  ELSE IF action = << "c","o","p","y" >> THEN << "c","o","p","y" >>
                  ELSE IF action \in { << "b","y","I","d" >>, << "b","y","A","l","i","a","s" >>, << "d","e","t","a","i","l" >>, << "i","n","f","o" >> } THEN << "g","e","t" >>
                  ELSE MethodPrefix(method)
        params == SelectSeq(segs, IsParamSegment)
    IN  [ prefix |-> prefix, parent |-> parent, resource |-> resource,
          suffix |-> NameSuffix(action, segs),
          param_names |-> [ i \in DOMAIN params |-> ParamName(params[i]) ],
          last2 |-> IF n >= 2 THEN tokens[n - 1] \o << "_" >> \o tokens[n] ELSE resource ]

\* name2: prefix + parent + resource + suffix (tried only when there is a parent)
ParentCandidate(path, method) ==
    LET p == FallbackParts(path, method)
    IN  to_camel(p.prefix \o << "_" >> \o p.parent \o << "_" >> \o p.resource \o p.suffix)

\* name3: prefix + resource + By<ParamNames> (tried only when the path has placeholders)
ParamCandidate(path, method) ==
    LET p == FallbackParts(path, method)
        caps == [ i \in DOMAIN p.param_names |-> Capitalize(p.param_names[i]) ]
    IN  to_camel(p.prefix \o << "_" >> \o p.resource \o << "_" >> \o << "B","y" >> \o Concat(caps))

\* name4: prefix + last two tokens + suffix
LastTwoCandidate(path, method) ==
    LET p == FallbackParts(path, method)
    IN  to_camel(p.prefix \o << "_" >> \o p.last2 \o p.suffix)

OperationIdUsable(operation_id) ==
    /\ operation_id # << >>
    /\ ~is_sequential_operation_id(operation_id)
    /\ ~is_generic_operation_id(operation_id)

\* base: the first candidate
BaseName(path, method, operation_id) ==
    IF OperationIdUsable(operation_id)
    THEN normalize_identifier(operation_id)
    ELSE build_short_name(path, method)

\* the candidates tried after the first one, in the order of the code
FallbackCandidates(path, method) ==
    LET p == FallbackParts(path, method)
    IN  (IF p.parent # << >> THEN << ParentCandidate(path, method) >> ELSE << >>)
        \o (IF p.param_names # << >> THEN << ParamCandidate(path, method) >> ELSE << >>)
        \o << LastTwoCandidate(path, method) >>

OperationKey(path, method) == << Upper(method), convert_path_to_url(path) >>

(***************************************************************************)
(* _build_function_name on the generator's naming state                    *)
(*   st = [existing_mappings, module_func_names, global_func_names].       *)
(***************************************************************************)
\* self._module_func_names.setdefault(module_key, set())
SeenOf(st, module_key) ==
    IF module_key \in DOMAIN st.module_func_names
    THEN st.module_func_names[module_key] ELSE {}

WithSeen(module_func_names, module_key, seen) ==
    [ k \in DOMAIN module_func_names \cup { module_key } |->
        IF k = module_key THEN seen ELSE module_func_names[k] ]

\* WithMapping forgetting the entries the registry already held
WithMapping_only_new(mappings, key, name) == [ k \in { key } |-> name ]

WithMapping(existing_mappings, key, name) ==
    [ k \in DOMAIN existing_mappings \cup { key } |->
        IF k = key THEN name ELSE existing_mappings[k] ]

IsFree(st, module_key, name) ==
    name \notin SeenOf(st, module_key) /\ name \notin st.global_func_names

\* registry hit: seen.add(existing_name); global_seen.add(existing_name)
RecordHit(st, module_key, existing_name) ==
    [ existing_mappings |-> st.existing_mappings,
      module_func_names |->
          WithSeen(st.module_func_names, module_key,
                   SeenOf(st, module_key) \cup { existing_name }),
      global_func_names |-> st.global_func_names \cup { existing_name } ]

\* RecordChoice without global_seen.add(name)
RecordChoice_no_global(st, module_key, existing_key, name) ==
    [ existing_mappings |-> WithMapping(st.existing_mappings, existing_key, name),
      module_func_names |->
          WithSeen(st.module_func_names, module_key, SeenOf(st, module_key) \cup { name }),
      global_func_names |-> st.global_func_names ]

\* seen.add(name); global_seen.add(name); self.existing_mappings[existing_key] = name
RecordChoice(st, module_key, existing_key, name) ==
    [ existing_mappings |-> WithMapping(st.existing_mappings, existing_key, name),
      module_func_names |->
          WithSeen(st.module_func_names, module_key, SeenOf(st, module_key) \cup { name }),
      global_func_names |-> st.global_func_names \cup { name } ]

\* i = 2; while f"{name}{i}" in seen or f"{name}{i}" in global_seen: i += 1
NumericSuffixName(st, module_key, name) ==
    LET taken == SeenOf(st, module_key) \cup st.global_func_names
        i == CHOOSE j \in 2..(Cardinality(taken) + 2) :
                 /\ name \o IntToStr(j) \notin taken
                 /\ \A k \in 2..(j - 1) : name \o IntToStr(k) \in taken
    IN  name \o IntToStr(i)

\* what a call derives from its arguments alone: the registry key, the module
\* key, the first candidate and the candidates tried after it
NamePlan(module_name, path, method, operation_id) ==
    [ existing_key |-> OperationKey(path, method),
      module_key |-> ModuleKey(module_name),
      base |-> BaseName(path, method, operation_id),
      fallbacks |-> FallbackCandidates(path, method) ]

\* ChooseName trying the candidates from the last one to the first
ChooseName_last_first(st, plan) ==
    LET cands == << plan.base >> \o plan.fallbacks
        free == { i \in DOMAIN cands : IsFree(st, plan.module_key, cands[i]) }
    IN  IF free # {}
        THEN cands[CHOOSE i \in free : \A j \in free : i >= j]
        ELSE NumericSuffixName(st, plan.module_key, plan.base)

\* the name chosen when the registry has no entry for the key
ChooseName(st, plan) ==
    LET cands == << plan.base >> \o plan.fallbacks
        free == { i \in DOMAIN cands : IsFree(st, plan.module_key, cands[i]) }
    IN  IF free # {}
        THEN cands[CHOOSE i \in free : \A j \in free : i <= j]
        ELSE NumericSuffixName(st, plan.module_key, plan.base)

\* build_function_name without the registry lookup: the name is always derived
build_function_name_no_lookup(st, plan) ==
    LET name == ChooseName(st, plan)
    IN  [ name |-> name,
          st |-> RecordChoice(st, plan.module_key, plan.existing_key, name) ]

\* the call: the name it returns and the naming state it leaves
build_function_name(st, plan) ==
    IF plan.existing_key \in DOMAIN st.existing_mappings
    THEN [ name |-> st.existing_mappings[plan.existing_key],
           st |-> RecordHit(st, plan.module_key,
                            st.existing_mappings[plan.existing_key]) ]
    ELSE LET name == ChooseName(st, plan)
         IN  [ name |-> name,
               st |-> RecordChoice(st, plan.module_key, plan.existing_key, name) ]

(***************************************************************************)
(* Schema nodes and the type resolver.                                     *)
(*                                                                         *)
(* A schema node is a record; node 0 stands for the empty dict {} that     *)
(* schema.get('items', {}) yields.  A $ref is kept as the pieces of        *)
(* ref.split('/'); ref = << >> means the node has no '$ref' key.           *)
(* type = "" means the node has no 'type' key.  Nodes refer to each other  *)
(* by id, so the graph may hold cycles.                                    *)
(***************************************************************************)
DepthCeiling == 10

InlineDepthCeiling == 5

\* the length of the chain of nested arrays that ends in a reference
ChainLen == 11

NoNode == 0

\* the JSON value true where a schema is expected (additionalProperties: true)
TrueValue == -1

\* what an operator returns when the code raises instead of returning
Raised == "<raised>"

NoEnum == << "<no enum>" >>

Blank ==
    [ ref |-> << >>, type |-> "", enum |-> NoEnum, items |-> NoNode,
      properties |-> << >>, additional |-> NoNode ]

RefNode(ref) == [ Blank EXCEPT !.ref = ref ]

Prim(type) == [ Blank EXCEPT !.type = type ]

EnumNode(values) == [ Blank EXCEPT !.type = "string", !.enum = values ]

ArrayOf(items) == [ Blank EXCEPT !.type = "array", !.items = items ]

ObjectOf(properties) == [ Blank EXCEPT !.type = "object", !.properties = properties ]

UntypedObjectOf(properties) == [ Blank EXCEPT !.properties = properties ]

MapOf(additional) == [ Blank EXCEPT !.type = "object", !.additional = additional ]

UntypedMapOf(additional) == [ Blank EXCEPT !.additional = additional ]

ComponentRef(name) == << "#", "components", "schemas", name >>

DefinitionRef(name) == << "#", "definitions", name >>

FixedNodes ==
    << Prim("string"),                                        \* 1
       EnumNode(<< "a", "b", "c" >>),                         \* 2
       Prim("integer"),                                       \* 3
       RefNode(ComponentRef("Tree")),                         \* 4  component exists
       RefNode(ComponentRef("Missing")),                      \* 5  component missing
       RefNode(<< "other.json#", "Ext" >>),                   \* 6  not a component path
       ArrayOf(4),                                            \* 7
       ObjectOf(<< << "id", 3 >>, << "child", 4 >> >>),       \* 8  Tree: refers to itself
       ArrayOf(9),                                            \* 9  array cycle
       ObjectOf(<< << "next", 10 >>, << "tag", 1 >> >>),      \* 10 object cycle
       MapOf(3),                                              \* 11 free-form map
       Prim("object"),                                        \* 12 no properties, no map
       UntypedObjectOf(<< << "list", 13 >> >>),               \* 13 cycle without a type key
       RefNode(DefinitionRef("Tree")),                        \* 14 OpenAPI 2.0 path
       RefNode(ComponentRef("Leaf")),                         \* 15 component without a cycle
       ObjectOf(<< << "id", 3 >> >>),                         \* 16 Leaf
       ArrayOf(15),                                           \* 17
       UntypedMapOf(TrueValue),                               \* 18 free-form, no type key
       MapOf(TrueValue),                                      \* 19 Bag: free-form
       ObjectOf(<< << "bag", 19 >>, << "id", 3 >> >>) >>      \* 20

ChainStart == Len(FixedNodes) + 1

ChainEnd == ChainStart + ChainLen

Nodes == 1..ChainEnd

Schemas ==
    [ n \in Nodes |->
        IF n < ChainStart THEN FixedNodes[n]
        ELSE IF n < ChainEnd THEN ArrayOf(n + 1)
        ELSE RefNode(ComponentRef("Tree")) ]

\* self.components
Components ==
    [ name \in { "Tree", "Leaf", "Bag" } |->
        IF name = "Tree" THEN 8 ELSE IF name = "Leaf" THEN 16 ELSE 19 ]

IsEmptySchema(n) == n = NoNode

\* '$ref' in schema raises TypeError when schema is a bool
IsBoolean(n) == n = TrueValue

HasRef(n) == Schemas[n].ref # << >>

\* ref.split('/')[-1]
RefName(ref) == ref[Len(ref)]

\* generate_typescript_type taking no reference for a component reference
IsComponentPath_never(ref) == FALSE

\* ref.startswith('#/components/schemas/') or ref.startswith('#/definitions/')
IsComponentPath(ref) ==
    \/ Len(ref) >= 4 /\ SubSeq(ref, 1, 3) = << "#", "components", "schemas" >>
    \/ Len(ref) >= 3 /\ SubSeq(ref, 1, 2) = << "#", "definitions" >>

\* self.components.get(schema_name) under either prefix, or None (NoNode)
resolve_ref(ref) ==
    IF /\ \/ Len(ref) >= 4 /\ SubSeq(ref, 1, 3) = << "#", "components", "schemas" >>
          \/ Len(ref) >= 3 /\ SubSeq(ref, 1, 2) = << "#", "definitions" >>
       /\ RefName(ref) \in DOMAIN Components
    THEN Components[RefName(ref)] ELSE NoNode

\* schema.get('type', 'object')
SchemaType(n) == IF Schemas[n].type = "" THEN "object" ELSE Schemas[n].type

\* ' | '.join([f'"{v}"' for v in schema['enum']])
RECURSIVE EnumUnion(_)
EnumUnion(values) ==
    IF values = << >> THEN ""
    ELSE IF Len(values) = 1 THEN "\"" \o values[1] \o "\""
    ELSE "\"" \o values[1] \o "\" | " \o EnumUnion(Tail(values))

\* ' '.join(lines)
RECURSIVE JoinLines(_)
JoinLines(lines) ==
    IF lines = << >> THEN ""
    ELSE IF Len(lines) = 1 THEN lines[1]
    ELSE lines[1] \o " " \o JoinLines(Tail(lines))

PropertyLine(prop_name, prop_type) == prop_name \o "?: " \o prop_type \o ";"

InlineText(lines) == "{ " \o JoinLines(lines) \o " }"

\* an expression built around the value of a call, unless the call raised
Around(before, value, after) ==
    IF value = Raised THEN Raised ELSE before \o value \o after

RECURSIVE generate_typescript_type(_, _)
RECURSIVE generate_inline_interface(_, _)
generate_typescript_type(schema, depth) ==
    IF depth > DepthCeiling THEN "any"
    ELSE IF IsEmptySchema(schema) THEN "any"
    ELSE IF IsBoolean(schema) THEN Raised
    ELSE IF HasRef(schema)
    THEN LET ref == Schemas[schema].ref
         IN  IF IsComponentPath(ref) THEN RefName(ref)
             ELSE IF resolve_ref(ref) # NoNode
             THEN generate_typescript_type(resolve_ref(ref), depth + 1)
             ELSE RefName(ref)
    ELSE LET schema_type == SchemaType(schema)
         IN  IF schema_type = "string"
             THEN IF Schemas[schema].enum # NoEnum
                  THEN EnumUnion(Schemas[schema].enum) ELSE "string"
             ELSE IF schema_type \in { "number", "integer" } THEN "number"
             ELSE IF schema_type = "boolean" THEN "boolean"
             ELSE IF schema_type = "array"
             THEN Around("", generate_typescript_type(Schemas[schema].items, depth + 1), "[]")
             ELSE IF schema_type = "object"
             THEN IF Schemas[schema].properties # << >>
                  THEN generate_inline_interface(schema, depth + 1)
                  ELSE IF Schemas[schema].additional # NoNode
                  THEN Around("Record<string, ",
                              generate_typescript_type(Schemas[schema].additional, depth + 1),
                              ">")
                  ELSE "{ [key: string]: any }"
             ELSE "any"

\* the properties are those of node `owner`
generate_inline_interface(owner, depth) ==
    IF depth > InlineDepthCeiling THEN "any"
    ELSE LET properties == Schemas[owner].properties
             types == [ i \in DOMAIN properties |->
                          generate_typescript_type(properties[i][2], depth + 1) ]
         IN  IF \E i \in DOMAIN types : types[i] = Raised THEN Raised
             ELSE InlineText([ i \in DOMAIN properties |->
                                 PropertyLine(properties[i][1], types[i]) ])

(***************************************************************************)
(* Named interfaces: generate_interface and generate_all_interfaces.       *)
(***************************************************************************)
\* the types of the properties, each resolved from the depth given
PropertyTypes(properties, depth) ==
    [ i \in DOMAIN properties |-> generate_typescript_type(properties[i][2], depth) ]

\* the lines of the properties of a named interface, or Raised
InterfaceLines(properties, types) ==
    IF \E i \in DOMAIN types : types[i] = Raised THEN Raised
    ELSE InlineText([ i \in DOMAIN properties |->
                        PropertyLine(properties[i][1], types[i]) ])

InterfaceBody(schema) ==
    InterfaceLines(Schemas[schema].properties,
                   PropertyTypes(Schemas[schema].properties, 0))

\* what a call that got past the emitted-names test leaves and emits
InterfaceResult(generated, text) ==
    [ generated |-> generated,
      kind |-> IF text = Raised THEN "raise" ELSE "real",
      text |-> text ]

\* generate_interface: the emitted-names set it leaves and what it emits;
\* the name is added before the types are resolved
generate_interface(generated, schema_name, schema) ==
    IF schema_name \in generated
    THEN [ generated |-> generated, kind |-> "skip",
           text |-> "// interface " \o schema_name ]
    ELSE InterfaceResult(
             generated \cup { schema_name },
             IF Schemas[schema].properties = << >>
             THEN Around("interface " \o schema_name \o " ",
                         generate_typescript_type(schema, 0), "")
             ELSE Around("export interface " \o schema_name \o " ",
                         InterfaceBody(schema), ""))

\* is_simple_schema
is_simple_schema(schema) ==
    LET node == Schemas[schema]
        Nested(n) == n # NoNode /\ (HasRef(n) \/ Schemas[n].type \in { "object", "array" })
    IN  IF HasRef(schema) THEN FALSE
        ELSE IF node.type = "array"
        THEN ~(node.items # NoNode /\ (HasRef(node.items) \/ Schemas[node.items].type = "object"))
        ELSE IF node.type = "object"
        THEN \A i \in DOMAIN node.properties : ~Nested(node.properties[i][2])
        ELSE TRUE

\* self.components.items(), in document order
ComponentNames == << "Tree", "Leaf", "Bag" >>

IsSimpleName(name) == is_simple_schema(Components[name])

IsComplexName(name) == ~is_simple_schema(Components[name])

\* the order of the calls of generate_all_interfaces: simple schemas first
InterfaceOrder ==
    SelectSeq(ComponentNames, IsSimpleName) \o SelectSeq(ComponentNames, IsComplexName)

\* the calls so far, with the call for `name` that returned r
WithInterface(acc, name, r) ==
    [ generated |-> r.generated,
      emitted |-> Append(acc.emitted,
                         [ name |-> name, kind |-> r.kind,
                           before |-> acc.generated, after |-> r.generated ]) ]

\* one pass of a loop of generate_all_interfaces: generate_interface in a
\* try; a call that raises leaves a placeholder interface
NextInterface(acc, name) ==
    WithInterface(acc, name, generate_interface(acc.generated, name, Components[name]))

RECURSIVE InterfacesFrom(_, _)
InterfacesFrom(acc, todo) ==
    IF todo = << >> THEN acc
    ELSE InterfacesFrom(NextInterface(acc, Head(todo)), Tail(todo))

\* generate_all_interfaces: the emitted-names set it leaves and what it emitted
generate_all_interfaces(generated, todo) ==
    InterfacesFrom([ generated |-> generated, emitted |-> << >> ], todo)

(***************************************************************************)
(* collect_used_types: the named types an operation refers to.  The        *)
(* recursion of _collect_types_from_schema follows references and has no   *)
(* guard; the interpreter ends it with RecursionError when the stack of    *)
(* calls passes its limit.                                                 *)
(***************************************************************************)
\* the interpreter's recursion limit, in calls of _collect_types_from_schema
RecursionLimit == 6

NoTypes == [ raised |-> FALSE, types |-> {} ]

RaisedTypes == [ raised |-> TRUE, types |-> {} ]

\* types.update(...) over the results of recursive calls
MergeTypes(results) ==
    IF \E r \in results : r.raised THEN RaisedTypes
    ELSE [ raised |-> FALSE, types |-> UNION { r.types : r \in results } ]

RECURSIVE collect_types_from_schema(_, _)
collect_types_from_schema(schema, calls) ==
    IF calls > RecursionLimit THEN RaisedTypes
    ELSE IF IsEmptySchema(schema) THEN NoTypes
    ELSE IF IsBoolean(schema) THEN RaisedTypes
    ELSE LET node == Schemas[schema]
             named == HasRef(schema) /\ IsComponentPath(node.ref)
             by_ref ==
                 IF named
                 THEN { [ raised |-> FALSE, types |-> { RefName(node.ref) } ] } \cup
                      (IF resolve_ref(node.ref) # NoNode
                       THEN { collect_types_from_schema(resolve_ref(node.ref), calls + 1) }
                       ELSE {})
                 ELSE {}
             by_type ==
                 IF node.type = "array"
                 THEN { collect_types_from_schema(node.items, calls + 1) }
                 ELSE IF node.type = "object"
                 THEN { collect_types_from_schema(node.properties[i][2], calls + 1) :
                            i \in DOMAIN node.properties } \cup
                      (IF node.additional # NoNode
                       THEN { collect_types_from_schema(node.additional, calls + 1) }
                       ELSE {})
                 ELSE {}
         IN  MergeTypes(by_ref \cup by_type)

\* collect_used_types, for an operation whose 200 response has the schema
collect_used_types(response) == collect_types_from_schema(response, 1)

(***************************************************************************)
(* The document: operations of the 'paths' object.  An operation carries   *)
(* its first tag (module), its path and method, its operationId, whether   *)
(* it declares an 'in: path' parameter, and its 200 response schema.       *)
(***************************************************************************)
MaxOps == 3

Pool ==
    << [ module |-> << "U","s","e","r" >>, path |-> << "/","a","/","u","s","e","r","s" >>,
         method |-> << "g","e","t" >>, operation_id |-> << >>,
         has_path_params |-> FALSE, response |-> 17 ],
       [ module |-> << "U","s","e","r"," ","A","d","m","i","n" >>, path |-> << "/","u","s","e","r","s" >>,
         method |-> << "g","e","t" >>, operation_id |-> << >>,
         has_path_params |-> FALSE, response |-> 2 ],
       [ module |-> << "O","r","d","e","r" >>, path |-> << "/","u","s","e","r","s","/","{","i","d","}","/","o","r","d","e","r","s" >>,
         method |-> << "g","e","t" >>, operation_id |-> << >>,
         has_path_params |-> TRUE, response |-> 15 ],
       [ module |-> << "O","r","d","e","r" >>, path |-> << "/","u","s","e","r","s","/","{","i","d","}" >>,
         method |-> << "g","e","t" >>, operation_id |-> << >>,
         has_path_params |-> FALSE, response |-> 16 ],
       [ module |-> << "U","s","e","r" >>, path |-> << "/","t","r","e","e" >>,
         method |-> << "p","o","s","t" >>, operation_id |-> << "g","e","t","U","s","e","r","s" >>,
         has_path_params |-> FALSE, response |-> 4 ],
       [ module |-> << "P","r","o","f","i","l","e" >>, path |-> << "/","p","r","o","f","i","l","e" >>,
         method |-> << "g","e","t" >>, operation_id |-> << "f","e","t","c","h","U","s","e","r","P","r","o","f","i","l","e" >>,
         has_path_params |-> FALSE, response |-> 18 ],
       [ module |-> << "u","s","e","r" >>, path |-> << "/","i","t","e","m","s" >>,
         method |-> << "g","e","t" >>, operation_id |-> << >>,
         has_path_params |-> FALSE, response |-> 2 ] >>

OpIds == DOMAIN Pool

IsInjective(s) == \A i, j \in DOMAIN s : s[i] = s[j] => i = j

\* the documents: up to MaxOps distinct operations, in iteration order
Docs == UNION { { d \in [ 1..n -> OpIds ] : IsInjective(d) } : n \in 0..MaxOps }

InsertAt(d, i, x) == SubSeq(d, 1, i - 1) \o << x >> \o SubSeq(d, i, Len(d))

(***************************************************************************)
(* The persisted registry file api-mapping.json and the module files.      *)
(***************************************************************************)
\* f"{method} {url}"
FormatKey(key) == key[1] \o << " " >> \o key[2]

\* method, url = key.split(' ', 1)
ParseKey(text) == SplitOnce(text, " ")

NoMappings == [ k \in {} |-> << >> ]

\* a dict built from (key, value) pairs; the pairs here never bind a key twice
DictOf(pairs) ==
    [ k \in { p[1] : p \in pairs } |-> (CHOOSE p \in pairs : p[1] = k)[2] ]

\* mapping_data of _write_mapping_file
MappingData(mappings) ==
    DictOf({ << FormatKey(k), mappings[k] >> : k \in DOMAIN mappings })

\* the loop of load_existing_interfaces over the entries of the mapping file
ParseMappingData(data) ==
    DictOf({ << ParseKey(t), data[t] >> : t \in DOMAIN data })

\* final_url of generate_api_function: placeholders are rewritten only when
\* the operation declares a path parameter
FinalUrl(path, has_path_params) ==
    IF has_path_params THEN convert_path_to_url(path) ELSE path

\* the (method, url) -> name pairs the scan of the module files recovers:
\* every function that is not a stub issues a call with a literal url
ScrapedPairs(files) ==
    UNION { { << << files[k][i].method, files[k][i].url >>, files[k][i].name >> :
                i \in { j \in DOMAIN files[k] : ~files[k][j].stub } } :
            k \in DOMAIN files }

\* the registries the scan can leave: the files are visited in directory
\* order, and for a key bound in several places the last one visited wins
ScanResults(parsed, files) ==
    LET pairs == ScrapedPairs(files)
        keys == { p[1] : p \in pairs }
        picks == { f \in [ keys -> { p[2] : p \in pairs } ] :
                       \A k \in keys : << k, f[k] >> \in pairs }
    IN  { [ k \in DOMAIN parsed \cup keys |->
              IF k \in keys THEN f[k] ELSE parsed[k] ] : f \in picks }

\* module_key = clean_module_name.lower(): the name of the module's file
ModuleFileKey(module_name) ==
    Lower([ i \in DOMAIN module_name |->
              IF IsAlnum(module_name[i]) THEN module_name[i] ELSE "_" ])

\* modules[module_name].append(...), module_types[module_name].update(...) and
\* module_operation_types[module_name].add(...), the module added on first use;
\* the variant below loses the function of an operation that failed
AppendApi_drops_stub(mods, module_name, file_key, fn, used, aliases) ==
    IF fn.stub THEN mods
    ELSE IF \E i \in DOMAIN mods : mods[i].module = module_name
    THEN [ i \in DOMAIN mods |->
             IF mods[i].module = module_name
             THEN [ mods[i] EXCEPT !.apis = Append(@, fn),
                                   !.types = @ \cup used,
                                   !.operation_types = @ \cup aliases ]
             ELSE mods[i] ]
    ELSE Append(mods, [ module |-> module_name, file_key |-> file_key,
                        apis |-> << fn >>, types |-> used,
                        operation_types |-> aliases ])

AppendApi(mods, module_name, file_key, fn, used, aliases) ==
    IF \E i \in DOMAIN mods : mods[i].module = module_name
    THEN [ i \in DOMAIN mods |->
             IF mods[i].module = module_name
             THEN [ mods[i] EXCEPT !.apis = Append(@, fn),
                                   !.types = @ \cup used,
                                   !.operation_types = @ \cup aliases ]
             ELSE mods[i] ]
    ELSE Append(mods, [ module |-> module_name, file_key |-> file_key,
                        apis |-> << fn >>, types |-> used,
                        operation_types |-> aliases ])

\* module_codes: one entry per file key, a later module replacing an earlier one
ModuleCodes(mods) ==
    [ k \in { mods[i].file_key : i \in DOMAIN mods } |->
        LET latest == CHOOSE i \in DOMAIN mods :
                          /\ mods[i].file_key = k
                          /\ \A j \in DOMAIN mods : mods[j].file_key = k => j <= i
        IN  mods[latest].apis ]

\* get_response_type, for an operation whose 200 response has the schema
get_response_type(response) ==
    IF response = NoNode THEN "any" ELSE generate_typescript_type(response, 0)

\* _operation_type_name: the alias of a function's request or response type
operation_type_name(function_name, suffix) ==
    Upper(SubSeq(function_name, 1, 1)) \o SubSeq(function_name, 2, Len(function_name))
        \o suffix

ResponseAlias(function_name) ==
    operation_type_name(function_name, << "R","e","s","p","o","n","s","e" >>)

\* path.replace('/', '_')
SlashesToUnderscores(path) ==
    [ i \in DOMAIN path |-> IF path[i] = "/" THEN "_" ELSE path[i] ]

\* the name of the stub emitted for an operation whose generation raised:
\* operation.get('operationId', f"{method}_{path.replace('/', '_')}")
StubName(op) ==
    IF op.operation_id # << >> THEN op.operation_id
    ELSE op.method \o << "_" >> \o SlashesToUnderscores(op.path)

\* what generating an operation derives from the document alone: the plan of
\* its name, and the method, url and response type of the function emitted
Derived(op) ==
    [ plan |-> NamePlan(op.module, op.path, op.method, op.operation_id),
      method |-> Upper(op.method),
      url |-> FinalUrl(op.path, op.has_path_params),
      response_type |-> get_response_type(op.response),
      file_key |-> ModuleFileKey(op.module),
      used_types |-> collect_used_types(op.response),
      stub_name |-> StubName(op) ]

\* a naming state with no mapping and no used name
EmptyNaming ==
    [ existing_mappings |-> NoMappings,
      module_func_names |-> [ k \in {} |-> {} ],
      global_func_names |-> {} ]

\* NewGenerator with the used-name sets shared between instances
NewGenerator_shared_sets(prev) ==
    [ existing_mappings |-> NoMappings,
      module_func_names |-> prev.module_func_names,
      global_func_names |-> prev.global_func_names ]

\* __init__: the naming state of a new generator, whatever the state `prev` of
\* the generator before it
NewGenerator(prev) == EmptyNaming

\* the arguments of a call of _build_function_name for an operation
ArgsOf(op) ==
    [ module |-> op.module, path |-> op.path, method |-> op.method,
      operation_id |-> op.operation_id ]

(***************************************************************************)
(* The generator as a state machine: generate_all_code, run twice over     *)
(* one output directory (or the second time over a fresh one).             *)
(***************************************************************************)
VARIABLES
    existing_mappings,   \* self.existing_mappings: (METHOD, url) -> name
    module_func_names,   \* self._module_func_names: module key -> set of names
    global_func_names,   \* self._global_func_names
    operation_types,     \* self.operation_types: name -> its types
    generated_interfaces, \* self.generated_interfaces: the emitted names
    modules,             \* modules of generate_module_apis, in insertion order
    mapping_file,        \* api-mapping.json in the output directory
    module_files,        \* <module key>.ts in the output directory
    types_file,          \* types.ts: the operation type aliases it defines
    pc,                  \* the step of generate_all_code: load, types, generate, done
    run,                 \* 1: first generation, 2: regeneration
    doc,                 \* the operations of the document, in iteration order
    pos,                 \* the next operation of doc to generate
    names,               \* by position, the name _build_function_name returned
    exports,             \* by position, the function emitted: its name, stub or not
    emitted,             \* the calls of generate_interface so far and what each emitted
    last,                \* the last call of _build_function_name
    loaded,              \* the registry right after load_existing_interfaces
    first,               \* what the first run produced
    kept,                \* the second run reads the first one's output directory
    damaged,             \* the second run finds a mapping file it cannot parse
    added,               \* the position in doc of the operation the second run adds
    ops,                 \* per operation or call, what is derived before naming state is read
    tstack,              \* resolver: the call stack of generate_typescript_type
    tret,                \* resolver: the value just returned, not yet consumed
    troot,               \* resolver: the schema being resolved
    tresult              \* resolver: the results of the top-level calls so far

genvars ==
    << existing_mappings, module_func_names, global_func_names, operation_types,
       generated_interfaces, modules, mapping_file, module_files, types_file, pc,
       run, doc, pos, names, exports, emitted, last, loaded, first, kept, damaged,
       added, ops >>

typevars == << tstack, tret, troot, tresult >>

vars == << genvars, typevars >>

NamingState ==
    [ existing_mappings |-> existing_mappings,
      module_func_names |-> module_func_names,
      global_func_names |-> global_func_names ]

NoFile == [ exists |-> FALSE, readable |-> TRUE, data |-> NoMappings ]

\* a mapping file that json.load or the loop over its entries rejects
DamagedFile == [ exists |-> TRUE, readable |-> FALSE, data |-> NoMappings ]

NoArgs == [ module |-> << >>, path |-> << >>, method |-> << >>, operation_id |-> << >> ]

NoPlan == [ existing_key |-> << >>, module_key |-> << >>, base |-> << >>, fallbacks |-> << >> ]

NoCall ==
    [ called |-> FALSE, args |-> NoArgs, plan |-> NoPlan, before |-> EmptyNaming,
      name |-> << >> ]

\* in names: _build_function_name was not called for the operation
NoName == << >>

NoFirst ==
    [ done |-> FALSE, doc |-> << >>, names |-> << >>, file |-> NoFile,
      types |-> [ k \in {} |-> "" ] ]

NoRet == [ set |-> FALSE, value |-> "", node |-> NoNode, depth |-> 0, fn |-> "" ]

InitWith(documents, step, derived) ==
    /\ existing_mappings = EmptyNaming.existing_mappings
    /\ module_func_names = EmptyNaming.module_func_names
    /\ global_func_names = EmptyNaming.global_func_names
    /\ operation_types = [ k \in {} |-> "" ]
    /\ generated_interfaces = {}
    /\ modules = << >>
    /\ mapping_file = NoFile
    /\ module_files = [ k \in {} |-> << >> ]
    /\ types_file = {}
    /\ pc = step
    /\ run = 1
    /\ doc \in documents
    /\ pos = 1
    /\ names = << >>
    /\ exports = << >>
    /\ emitted = << >>
    /\ last = NoCall
    /\ loaded = NoMappings
    /\ first = NoFirst
    /\ kept = FALSE
    /\ damaged = FALSE
    /\ added = 0
    /\ ops = derived
    /\ tstack = << >>
    /\ tret = NoRet
    /\ troot = NoNode
    /\ tresult = [ n \in {} |-> "" ]

\* a generator just constructed, about to run generate_all_code on a document
Init == InitWith(Docs, "load", [ o \in OpIds |-> Derived(Pool[o]) ])

\* load_existing_interfaces: the mapping file, then the scan of the module
\* files; a mapping file that cannot be parsed is reported and passed over
LoadExistingInterfaces ==
    /\ pc = "load"
    /\ LET parsed == IF mapping_file.exists /\ mapping_file.readable
                     THEN ParseMappingData(mapping_file.data) ELSE NoMappings
       IN  \E m \in ScanResults(parsed, module_files) :
               /\ existing_mappings' = m
               /\ loaded' = m
    /\ pc' = "types"
    /\ UNCHANGED << module_func_names, global_func_names, operation_types,
                    generated_interfaces, modules, mapping_file, module_files,
                    types_file, run, doc, pos, names, exports, emitted, last, first,
                    kept, damaged, added, ops, typevars >>

\* self.generated_interfaces and the calls made, after a pass that left r
InterfacesLeft(r) ==
    /\ generated_interfaces' = r.generated
    /\ emitted' = emitted \o r.emitted

\* generate_all_code writes types.ts: generate_all_interfaces, then
\* _render_operation_types over the operation types registered so far
WriteTypes ==
    /\ pc = "types"
    /\ InterfacesLeft(generate_all_interfaces(generated_interfaces, InterfaceOrder))
    /\ types_file' = { ResponseAlias(n) : n \in DOMAIN operation_types }
    /\ pc' = "generate"
    /\ UNCHANGED << existing_mappings, module_func_names, global_func_names,
                    operation_types, modules, mapping_file, module_files, run, doc,
                    pos, names, exports, last, loaded, first, kept, damaged, added,
                    ops, typevars >>

\* one pass of the loop of generate_module_apis, the try and its except:
\* collect_used_types, generate_api_function and the append to the module,
\* or the stub appended in its place when one of them raises
GenerateApiFunction ==
    /\ pc = "generate"
    /\ pos <= Len(doc)
    /\ LET op == Pool[doc[pos]]
           d == ops[doc[pos]]
           r == build_function_name(NamingState, d.plan)
           fn == [ name |-> r.name, method |-> d.method, url |-> d.url,
                   stub |-> FALSE ]
           stub == [ name |-> d.stub_name, method |-> d.method, url |-> d.url,
                     stub |-> TRUE ]
       IN  IF d.used_types.raised
           THEN \* collect_used_types raised: the operation is never named
                /\ modules' = AppendApi(modules, op.module, d.file_key, stub, {}, {})
                /\ names' = Append(names, NoName)
                /\ exports' = Append(exports, [ name |-> stub.name, stub |-> TRUE ])
                /\ UNCHANGED << existing_mappings, module_func_names,
                                global_func_names, operation_types, last >>
           ELSE /\ existing_mappings' = r.st.existing_mappings
                /\ module_func_names' = r.st.module_func_names
                /\ global_func_names' = r.st.global_func_names
                /\ names' = Append(names, r.name)
                /\ last' = [ called |-> TRUE, args |-> ArgsOf(op), plan |-> d.plan,
                             before |-> NamingState, name |-> r.name ]
                /\ IF d.response_type = Raised
                   THEN \* get_response_type raised after the name was chosen
                        /\ modules' = AppendApi(modules, op.module, d.file_key, stub,
                                                d.used_types.types, {})
                        /\ exports' = Append(exports, [ name |-> stub.name, stub |-> TRUE ])
                        /\ UNCHANGED operation_types
                   ELSE /\ operation_types' =
                               [ k \in DOMAIN operation_types \cup { r.name } |->
                                   IF k = r.name THEN d.response_type
                                   ELSE operation_types[k] ]
                        /\ modules' = AppendApi(modules, op.module, d.file_key, fn,
                                                d.used_types.types,
                                                { ResponseAlias(r.name) })
                        /\ exports' = Append(exports, [ name |-> r.name, stub |-> FALSE ])
    /\ pos' = pos + 1
    /\ UNCHANGED << generated_interfaces, mapping_file, module_files, types_file, pc,
                    run, doc, emitted, loaded, first, kept, damaged, added, ops,
                    typevars >>

\* the end of generate_all_code: the module files, then _write_mapping_file
WriteOutput ==
    /\ pc = "generate"
    /\ pos > Len(doc)
    /\ LET codes == ModuleCodes(modules)
           file == IF DOMAIN existing_mappings = {} THEN mapping_file
                   ELSE [ exists |-> TRUE, readable |-> TRUE,
                          data |-> MappingData(existing_mappings) ]
       IN  /\ module_files' =
                  [ k \in DOMAIN module_files \cup DOMAIN codes |->
                      IF k \in DOMAIN codes THEN codes[k] ELSE module_files[k] ]
           /\ mapping_file' = file
           /\ first' = IF run = 1
                       THEN [ done |-> TRUE, doc |-> doc, names |-> names,
                              file |-> file, types |-> operation_types ]
                       ELSE first
    /\ pc' = "done"
    /\ UNCHANGED << existing_mappings, module_func_names, global_func_names,
                    operation_types, generated_interfaces, modules, types_file, run,
                    doc, pos, names, exports, emitted, last, loaded, kept, damaged,
                    added, ops, typevars >>

RemoveAt(d, i) == SubSeq(d, 1, i - 1) \o SubSeq(d, i + 1, Len(d))

\* the documents of the second run: the same one, it with one operation added
\* (at the position given), or it with one operation removed
NextDocs(d) ==
    { << d, 0 >> }
    \cup { << InsertAt(d, i, o), i >> : i \in 1..(Len(d) + 1), o \in OpIds \ Range(d) }
    \cup { << RemoveAt(d, i), 0 >> : i \in DOMAIN d }

\* a second generate_all_code: a new generator (__init__) over the same output
\* directory, over the same one with its mapping file damaged, or over a
\* fresh one
Regenerate ==
    /\ pc = "done"
    /\ run = 1
    /\ run' = 2
    /\ pc' = "load"
    /\ existing_mappings' = NewGenerator(NamingState).existing_mappings
    /\ module_func_names' = NewGenerator(NamingState).module_func_names
    /\ global_func_names' = NewGenerator(NamingState).global_func_names
    /\ operation_types' = [ k \in {} |-> "" ]
    /\ generated_interfaces' = {}
    /\ modules' = << >>
    /\ pos' = 1
    /\ names' = << >>
    /\ exports' = << >>
    /\ emitted' = << >>
    /\ last' = NoCall
    /\ loaded' = NoMappings
    /\ \E dir \in { "kept", "damaged", "fresh" } :
           /\ dir = "damaged" => mapping_file.exists
           /\ kept' = (dir = "kept")
           /\ damaged' = (dir = "damaged")
           /\ mapping_file' = IF dir = "kept" THEN mapping_file
                              ELSE IF dir = "damaged" THEN DamagedFile ELSE NoFile
           /\ module_files' = IF dir = "fresh" THEN [ k \in {} |-> << >> ]
                              ELSE module_files
           /\ types_file' = IF dir = "fresh" THEN {} ELSE types_file
    /\ \E nd \in NextDocs(doc) :
           /\ doc' = nd[1]
           /\ added' = nd[2]
    /\ UNCHANGED << first, ops, typevars >>

Next ==
    \/ LoadExistingInterfaces
    \/ WriteTypes
    \/ GenerateApiFunction
    \/ WriteOutput
    \/ Regenerate

Spec == Init /\ [][Next]_vars

(***************************************************************************)
(* _build_function_name called directly on a new generator, with its       *)
(* arguments drawn from small sets.                                        *)
(***************************************************************************)
MaxCalls == 2

CallModules == { << "U","s","e","r" >>, << "O","r","d","e","r" >> }

CallPaths == { << "/","p","r","o","f","i","l","e" >>, << "/","g","e","t" >> }

CallMethods == { << "g","e","t" >> }

CallOperationIds ==
    { << >>, << "g","e","t","_","3" >>, << "f","e","t","c","h","U","s","e","r","P","r","o","f","i","l","e" >>, << "1","2","3" >>, << "g","e","t","1" >>, << "s","a","v","e","_","2" >>,
      << "D","e","t","a","i","l","-","9" >>, << "u","s","e","r","_","7" >>, << "l","i","s","t" >>, << "G","E","T" >>, << "u","s","e","r",".","p","r","o","f","i","l","e" >>, << "2","f","a" >>, << "q","u","e","r","y","1" >> }

CallArgs ==
    [ module : CallModules, path : CallPaths, method : CallMethods,
      operation_id : CallOperationIds ]

\* what a call derives from its arguments before it looks at the naming state
CallPlans ==
    [ args \in CallArgs |->
        [ plan |-> NamePlan(args.module, args.path, args.method, args.operation_id) ] ]

CallInit == InitWith({ << >> }, "call", CallPlans)

CallBuildFunctionName ==
    /\ pc = "call"
    /\ Len(names) < MaxCalls
    /\ \E args \in CallArgs :
           LET plan == ops[args].plan
               r == build_function_name(NamingState, plan)
           IN  /\ existing_mappings' = r.st.existing_mappings
               /\ module_func_names' = r.st.module_func_names
               /\ global_func_names' = r.st.global_func_names
               /\ names' = Append(names, r.name)
               /\ last' = [ called |-> TRUE, args |-> args, plan |-> plan,
                            before |-> NamingState, name |-> r.name ]
    /\ UNCHANGED << operation_types, generated_interfaces, modules, mapping_file,
                    module_files, types_file, pc, run, doc, pos, exports, emitted,
                    loaded, first, kept, damaged, added, ops, typevars >>

CallNext == CallBuildFunctionName

CallSpec == CallInit /\ [][CallNext]_vars

(***************************************************************************)
(* Properties of the identifier synthesizer and its registry.              *)
(***************************************************************************)
\* the registry key of the operation at position i of the document
KeyAt(i) == ops[doc[i]].plan.existing_key

\* the first run's persisted registry: whether it records key, and the name
RecordedInFirst(key) == FormatKey(key) \in DOMAIN first.file.data

NameInFirst(key) == first.file.data[FormatKey(key)]

LoadedInjective ==
    \A k1, k2 \in DOMAIN loaded : k1 # k2 => loaded[k1] # loaded[k2]

LastHit == last.plan.existing_key \in DOMAIN last.before.existing_mappings

\* the second run regenerates, with the first run's registry loaded, the first
\* run's document plus one operation
RegeneratesWithOneMore == run = 2 /\ kept /\ added # 0 /\ pc \in { "generate", "done" }

\* the second run is over the first run's document, unchanged
SameDocument == run = 2 /\ added = 0 /\ doc = first.doc

\* the second run starts from an empty output directory
FreshDirectory == ~kept /\ ~damaged

\* the operation at position i went through _build_function_name
Named(i) == names[i] # NoName

\* C1: in one run, from an empty registry or from a loaded registry that maps
\* distinct keys to distinct names, no two distinct operation keys are given the
\* same function name, across modules included.
C1_Uniqueness ==
    LoadedInjective =>
        \A i, j \in DOMAIN names :
            (Named(i) /\ Named(j) /\ KeyAt(i) # KeyAt(j)) => names[i] # names[j]

\* C2: a call made while the registry holds a name for the key returns that
\* name; so when D plus one operation is regenerated with R loaded, every
\* operation of D gets the name R records for it.
C2_RegistryHitReused ==
    /\ (last.called /\ LastHit) =>
           last.name = last.before.existing_mappings[last.plan.existing_key]
    /\ RegeneratesWithOneMore =>
           \A i \in DOMAIN names :
               (i # added /\ Named(i)) =>
                   RecordedInFirst(KeyAt(i)) /\ names[i] = NameInFirst(KeyAt(i))

\* C2 witness: the regeneration is complete, the added operation came first and
\* an operation of D was named after it from the registry
C2_Witness ==
    /\ RegeneratesWithOneMore /\ pc = "done" /\ added = 1 /\ Len(names) >= 2
    /\ last.called /\ LastHit

\* C3: when D plus one operation is regenerated with R loaded, the name of the
\* new operation differs from every name R assigns to an operation of the
\* document, wherever the new operation comes in the iteration order.
C3_NewNameFresh ==
    (RegeneratesWithOneMore /\ added \in DOMAIN names /\ Named(added)) =>
        \A j \in DOMAIN doc :
            (j # added /\ RecordedInFirst(KeyAt(j))) =>
                names[added] # NameInFirst(KeyAt(j))

\* C4: a second run on the same document with the first run's registry loaded
\* gives every operation the same name and persists the same registry.
C4_Idempotent ==
    (SameDocument /\ kept /\ pc = "done") =>
        names = first.names /\ mapping_file = first.file

C6_ChoiceRecorded ==
    last.called =>
        /\ last.plan.module_key \in DOMAIN module_func_names
        /\ last.name \in module_func_names[last.plan.module_key]
        /\ last.name \in global_func_names
        /\ last.plan.existing_key \in DOMAIN existing_mappings
        /\ existing_mappings[last.plan.existing_key] = last.name

\* C6 witness: the call returned by the numeric-suffix branch
C6_Witness ==
    /\ last.called /\ ~LastHit
    /\ last.name \notin Range(<< last.plan.base >> \o last.plan.fallbacks)

\* the operationIds the claim calls usable, stated on the text of the id
PurelyNumeric(id) == \A i \in DOMAIN id : id[i] \in DigitSet

EndsInNumericSuffix(id) ==
    \E i \in 1..(Len(id) - 1) :
        id[i] \in { "-", "_" } /\ \A j \in (i + 1)..Len(id) : id[j] \in DigitSet

VerbThenDigits(id) ==
    \E n \in 1..(Len(id) - 1) :
        /\ Lower(SubSeq(id, 1, n)) \in SequentialVerbs
        /\ \E m \in { n, n + 1 } :
               /\ m < Len(id)
               /\ m = n + 1 => id[m] \in { "-", "_" }
               /\ \A j \in (m + 1)..Len(id) : id[j] \in DigitSet

BareGenericVerb(id) == Lower(id) \in GenericOperationIds

UsableId(id) ==
    /\ id # << >>
    /\ ~PurelyNumeric(id)
    /\ ~EndsInNumericSuffix(id)
    /\ ~VerbThenDigits(id)
    /\ ~BareGenericVerb(id)

\* the first candidate as the claim states it
FirstCandidate(args) ==
    IF UsableId(args.operation_id)
    THEN normalize_identifier(args.operation_id)
    ELSE build_short_name(args.path, args.method)

\* C9: with no registry hit and the candidate free, the call returns the
\* normalized operationId exactly when the id is non-empty, not sequential-
\* looking and not a bare generic verb, and a path-derived name otherwise;
\* "get_3" is rejected and "fetchUserProfile" is used as the name.
C9_OperationIdRule ==
    (last.called /\ ~LastHit
       /\ IsFree(last.before, last.plan.module_key, FirstCandidate(last.args))) =>
        /\ last.name = FirstCandidate(last.args)
        /\ last.args.operation_id = << "g","e","t","_","3" >> =>
               last.name = build_short_name(last.args.path, last.args.method)
        /\ last.args.operation_id = << "f","e","t","c","h","U","s","e","r","P","r","o","f","i","l","e" >> =>
               last.name = << "f","e","t","c","h","U","s","e","r","P","r","o","f","i","l","e" >>

\* C9 witness: "get_3" was rejected in a call whose path-derived name was free
C9_Witness ==
    /\ last.called /\ ~LastHit /\ last.args.operation_id = << "g","e","t","_","3" >>
    /\ IsFree(last.before, last.plan.module_key, FirstCandidate(last.args))
    /\ last.name = << "g","e","t","P","r","o","f","i","l","e" >>

IsOrdersOfUser(o) ==
    /\ Pool[o].path = << "/","u","s","e","r","s","/","{","i","d","}","/","o","r","d","e","r","s" >>
    /\ Lower(Pool[o].method) = << "g","e","t" >>
    /\ Pool[o].operation_id = << >>

IsUserById(o) ==
    Pool[o].path = << "/","u","s","e","r","s","/","{","i","d","}" >> /\ Lower(Pool[o].method) = << "g","e","t" >>

\* C10: GET /users/{id}/orders, without operationId, named first in its module
\* from an empty registry, gets the parent-qualified name getUsersOrders, and
\* that name never equals the name of GET /users/{id} in the same module.
C10_ParentQualified ==
    \A i \in DOMAIN names :
        (/\ run = 1
         /\ IsOrdersOfUser(doc[i])
         /\ \A j \in 1..(i - 1) : Pool[doc[j]].module # Pool[doc[i]].module) =>
            /\ names[i] = << "g","e","t","U","s","e","r","s","O","r","d","e","r","s" >>
            /\ \A j \in DOMAIN names :
                   (IsUserById(doc[j]) /\ Pool[doc[j]].module = Pool[doc[i]].module)
                       => names[j] # names[i]

(***************************************************************************)
(* generate_typescript_type and generate_inline_interface step by step:    *)
(* the interpreter's call stack is explicit, one frame per call, so that   *)
(* termination is a property of the behaviours and not of the definition.  *)
(***************************************************************************)
\* more frames than the depth ceilings allow a stack to hold
MaxStack == 13

Frame(fn, node, depth) ==
    [ fn |-> fn, node |-> node, depth |-> depth, idx |-> 1, lines |-> << >>,
      waiting |-> FALSE ]

\* the frame of a recursive call that keeps the caller's depth
Callee_same_depth(fn, node, depth) == Frame(fn, node, depth)

\* a recursive call: generate_typescript_type(..., depth + 1)
Callee(fn, node, depth) == Frame(fn, node, depth + 1)

Top == tstack[Len(tstack)]

Returned(f, value) ==
    [ set |-> TRUE, value |-> value, node |-> f.node, depth |-> f.depth, fn |-> f.fn ]

\* whether generate_typescript_type(node, depth) makes a recursive call
NeedsCall(node, depth) ==
    /\ depth <= DepthCeiling
    /\ ~IsEmptySchema(node)
    /\ ~IsBoolean(node)
    /\ IF HasRef(node)
       THEN ~IsComponentPath(Schemas[node].ref) /\ resolve_ref(Schemas[node].ref) # NoNode
       ELSE \/ SchemaType(node) = "array"
            \/ /\ SchemaType(node) = "object"
               /\ Schemas[node].properties # << >> \/ Schemas[node].additional # NoNode

\* the recursive call it makes
ChildCall(node, depth) ==
    IF HasRef(node) THEN Callee("type", resolve_ref(Schemas[node].ref), depth)
    ELSE IF SchemaType(node) = "array" THEN Callee("type", Schemas[node].items, depth)
    ELSE IF Schemas[node].properties # << >> THEN Callee("inline", node, depth)
    ELSE Callee("type", Schemas[node].additional, depth)

\* what it returns once the recursive call has returned value
Compose(node, value) ==
    IF HasRef(node) THEN value
    ELSE IF SchemaType(node) = "array" THEN Around("", value, "[]")
    ELSE IF Schemas[node].properties # << >> THEN value
    ELSE Around("Record<string, ", value, ">")

\* what it returns when it makes no recursive call
LeafType(node, depth) ==
    IF depth > DepthCeiling THEN "any"
    ELSE IF IsEmptySchema(node) THEN "any"
    ELSE IF IsBoolean(node) THEN Raised
    ELSE IF HasRef(node) THEN RefName(Schemas[node].ref)
    ELSE IF SchemaType(node) = "string"
    THEN IF Schemas[node].enum # NoEnum THEN EnumUnion(Schemas[node].enum) ELSE "string"
    ELSE IF SchemaType(node) \in { "number", "integer" } THEN "number"
    ELSE IF SchemaType(node) = "boolean" THEN "boolean"
    ELSE IF SchemaType(node) = "object" THEN "{ [key: string]: any }"
    ELSE "any"

\* return value: the top frame is popped and its caller, if any, sees value
Return(value) ==
    /\ tstack' = SubSeq(tstack, 1, Len(tstack) - 1)
    /\ tret' = Returned(Top, value)
    /\ tresult' = IF Len(tstack) = 1 THEN (troot :> value) ELSE tresult
    /\ UNCHANGED troot

\* call: the top frame waits for the frame pushed above it
Push(frame) ==
    /\ Len(tstack) < MaxStack
    /\ tstack' = Append([ tstack EXCEPT ![Len(tstack)].waiting = TRUE ], frame)
    /\ tret' = NoRet
    /\ UNCHANGED << troot, tresult >>

Running(fn) == pc = "type" /\ tstack # << >> /\ Top.fn = fn

\* a top-level call generate_typescript_type(schema), depth defaulted to 0
TypeCall ==
    /\ pc = "type" /\ tstack = << >>
    /\ \E root \in Nodes \cup { NoNode, TrueValue } :
           /\ tstack' = << Frame("type", root, 0) >>
           /\ troot' = root
    /\ tret' = NoRet
    /\ tresult' = << >>
    /\ UNCHANGED genvars

TypeReturnLeaf ==
    /\ Running("type") /\ ~Top.waiting
    /\ ~NeedsCall(Top.node, Top.depth)
    /\ Return(LeafType(Top.node, Top.depth))
    /\ UNCHANGED genvars

TypeDescend ==
    /\ Running("type") /\ ~Top.waiting
    /\ NeedsCall(Top.node, Top.depth)
    /\ Push(ChildCall(Top.node, Top.depth))
    /\ UNCHANGED genvars

TypeResume ==
    /\ Running("type") /\ Top.waiting /\ tret.set
    /\ Return(Compose(Top.node, tret.value))
    /\ UNCHANGED genvars

\* generate_inline_interface: if depth > 5: return 'any'
InlineCutoff ==
    /\ Running("inline") /\ ~Top.waiting
    /\ Top.depth > InlineDepthCeiling
    /\ Return("any")
    /\ UNCHANGED genvars

\* the loop over properties.items(): the type of the next property
InlineProperty ==
    /\ Running("inline") /\ ~Top.waiting
    /\ Top.depth <= InlineDepthCeiling
    /\ Top.idx <= Len(Schemas[Top.node].properties)
    /\ Push(Callee("type", Schemas[Top.node].properties[Top.idx][2], Top.depth))
    /\ UNCHANGED genvars

\* lines.append(f"{prop_name}?: {prop_type};")
InlineCollect ==
    /\ Running("inline") /\ Top.waiting /\ tret.set
    /\ tret.value # Raised
    /\ tstack' = [ tstack EXCEPT ![Len(tstack)] =
                     [ @ EXCEPT !.waiting = FALSE,
                                !.idx = @ + 1,
                                !.lines = Append(@, PropertyLine(
                                    Schemas[Top.node].properties[Top.idx][1], tret.value)) ] ]
    /\ tret' = NoRet
    /\ UNCHANGED << troot, tresult, genvars >>

\* the exception of a property's type leaves generate_inline_interface too
InlineRaise ==
    /\ Running("inline") /\ Top.waiting /\ tret.set
    /\ tret.value = Raised
    /\ Return(Raised)
    /\ UNCHANGED genvars

\* return '{ ' + ' '.join(lines) + ' }'
InlineDone ==
    /\ Running("inline") /\ ~Top.waiting
    /\ Top.depth <= InlineDepthCeiling
    /\ Top.idx > Len(Schemas[Top.node].properties)
    /\ Return(InlineText(Top.lines))
    /\ UNCHANGED genvars

TypeStep ==
    \/ TypeReturnLeaf
    \/ TypeDescend
    \/ TypeResume
    \/ InlineCutoff
    \/ InlineProperty
    \/ InlineCollect
    \/ InlineRaise
    \/ InlineDone

TypeNext ==
    \/ TypeCall
    \/ TypeReturnLeaf
    \/ TypeDescend
    \/ TypeResume
    \/ InlineCutoff
    \/ InlineProperty
    \/ InlineCollect
    \/ InlineRaise
    \/ InlineDone

TypeInit == InitWith({ << >> }, "type", << >>)

\* the interpreter keeps running a call that has a step to take
TypeSpec == TypeInit /\ [][TypeNext]_vars /\ WF_vars(TypeStep)

(***************************************************************************)
(* Properties of type resolution.                                          *)
(***************************************************************************)
TypeFinished == tstack = << >> /\ troot \in DOMAIN tresult

\* every frame was called by the frame below it with that frame's depth plus one
DepthThreaded ==
    \A i \in 2..Len(tstack) :
        tstack[i].depth = tstack[i - 1].depth + 1 /\ tstack[i - 1].waiting

\* past its ceiling a call returns 'any'
CeilingDegrades ==
    tret.set =>
        /\ (tret.fn = "type" /\ tret.depth > DepthCeiling) => tret.value = "any"
        /\ (tret.fn = "inline" /\ tret.depth > InlineDepthCeiling) => tret.value = "any"

\* the stack never holds more than one frame per depth 0 .. ceiling + 1
StackBounded == Len(tstack) <= DepthCeiling + 2 /\ Len(tstack) < MaxStack

\* a finished call returned what the recursive definition computes
SameAsDefinition ==
    TypeFinished => tresult[troot] = generate_typescript_type(troot, 0)

\* C7: generate_typescript_type terminates with a finite type expression on
\* every schema graph, self-referring properties and true cycles of arrays or
\* objects included: every recursive call passes its caller's depth plus one,
\* and a call returns 'any' once depth exceeds 10 (5 for inline expansion).
C7_Terminates ==
    /\ [](DepthThreaded /\ CeilingDegrades /\ StackBounded /\ SameAsDefinition)
    /\ (tstack # << >>) ~> TypeFinished

\* C7 witness: the call on an array that is its own item type has returned
C7_Witness ==
    /\ TypeFinished
    /\ troot \in Nodes
    /\ Schemas[troot].type = "array" /\ Schemas[troot].items = troot

ReferenceReturned ==
    tret.set /\ tret.fn = "type" /\ tret.node \in Nodes /\ HasRef(tret.node)

\* C8: for every Reference node, generate_typescript_type returns the last
\* segment of the reference path without expanding the referenced schema,
\* whether the component exists, is missing or refers to itself.
C8_ReferenceBareName ==
    ReferenceReturned => tret.value = RefName(Schemas[tret.node].ref)

\* C8 as it holds: the same, for a Reference node reached at depth 10 or less
C8_ReferenceBareNameWithinCeiling ==
    (ReferenceReturned /\ tret.depth <= DepthCeiling) =>
        /\ tret.value = RefName(Schemas[tret.node].ref)
        /\ tstack = << >> \/ Top.waiting

\* C8 witness: a reference to a component that exists and refers to itself was
\* returned from inside that component
C8_Witness ==
    /\ ReferenceReturned /\ tret.depth <= DepthCeiling /\ tret.depth > 0
    /\ resolve_ref(Schemas[tret.node].ref) # NoNode
    /\ \E i \in DOMAIN Schemas[resolve_ref(Schemas[tret.node].ref)].properties :
           Schemas[resolve_ref(Schemas[tret.node].ref)].properties[i][2] = tret.node
    /\ tret.value = "Tree"

(***************************************************************************)
(* generate_interface called directly, any name any number of times.       *)
(***************************************************************************)
MaxInterfaceCalls == 4

InterfaceInit ==
    InitWith({ << >> }, "interfaces", [ o \in {} |-> Derived(Pool[o]) ])

\* one call generate_interface(name, self.components[name])
GenerateInterface ==
    /\ pc = "interfaces"
    /\ Len(emitted) < MaxInterfaceCalls
    /\ \E i \in DOMAIN ComponentNames :
           InterfacesLeft(NextInterface([ generated |-> generated_interfaces,
                                          emitted |-> << >> ],
                                        ComponentNames[i]))
    /\ UNCHANGED << existing_mappings, module_func_names, global_func_names,
                    operation_types, modules, mapping_file, module_files, types_file,
                    pc, run, doc, pos, names, exports, last, loaded, first, kept,
                    damaged, added, ops, typevars >>

InterfaceNext == GenerateInterface

InterfaceSpec == InterfaceInit /\ [][InterfaceNext]_vars

\* the call at position i is the first one for its name
FirstCallFor(i) == \A j \in 1..(i - 1) : emitted[j].name # emitted[i].name

\* C11: over any sequence of generate_interface calls, the first call for a
\* name emits the real interface and adds the name to the emitted-names set,
\* every later call for it emits no interface and leaves the set unchanged,
\* and so each name is emitted as a real interface at most once.
C11_EmittedOnce ==
    \A i \in DOMAIN emitted :
        /\ FirstCallFor(i) =>
               /\ emitted[i].kind = "real"
               /\ emitted[i].after = emitted[i].before \cup { emitted[i].name }
        /\ ~FirstCallFor(i) =>
               /\ emitted[i].kind = "skip"
               /\ emitted[i].after = emitted[i].before
        /\ Cardinality({ j \in DOMAIN emitted :
                           emitted[j].name = emitted[i].name /\ emitted[j].kind = "real" }) <= 1

(***************************************************************************)
(* Properties of generate_all_code as a whole.                             *)
(***************************************************************************)
\* C12: when the persisted registry file exists but cannot be read or parsed,
\* the run is aborted: no operation is named and no registry file is written
\* after the failure.
C12_DamagedRegistryAborts ==
    (run = 2 /\ damaged) =>
        /\ \A i \in DOMAIN names : ~Named(i)
        /\ ~last.called
        /\ pc # "done"
        /\ mapping_file = DamagedFile


\* generating the operation raises: in collect_used_types, or in
\* get_response_type after the name was chosen
Fails(o) == ops[o].used_types.raised \/ ops[o].response_type = Raised

\* the positions already generated whose operation is of the module and fails
FailedIn(module_name) ==
    { i \in DOMAIN exports : Fails(doc[i]) /\ Pool[doc[i]].module = module_name }

\* C13: an exception while generating one operation is caught for that
\* operation alone: exactly one stub is added to its module in its place,
\* and every later operation of the document is still processed and named.
C13_FailureContained ==
    /\ Len(exports) = pos - 1
    /\ pc = "done" => Len(exports) = Len(doc)
    /\ \A i \in DOMAIN exports :
           /\ Fails(doc[i]) <=> exports[i].stub
           /\ ~Fails(doc[i]) => Named(i) /\ exports[i].name = names[i]
    /\ \A m \in DOMAIN modules :
           /\ Cardinality({ k \in DOMAIN modules[m].apis : modules[m].apis[k].stub })
                  = Cardinality(FailedIn(modules[m].module))
           /\ Len(modules[m].apis)
                  = Cardinality({ i \in DOMAIN exports :
                                    Pool[doc[i]].module = modules[m].module })

\* C13 witness: a run is complete in which an operation failed while its types
\* were collected, another failed after it was named, and an operation that
\* came after both was generated as a real function
C13_Witness ==
    /\ pc = "done"
    /\ \E i, j, k \in DOMAIN exports :
           /\ i < k /\ j < k
           /\ ops[doc[i]].used_types.raised
           /\ ~ops[doc[j]].used_types.raised /\ ops[doc[j]].response_type = Raised
           /\ ~Fails(doc[k]) /\ Named(k) /\ ~exports[k].stub


\* the functions of the modules generated so far, as the files would hold them
GeneratedFiles == [ m \in DOMAIN modules |-> modules[m].apis ]

\* C14: the URL literal written into a generated function equals the
\* canonical url of the operation's registry key, so the (method, url) pair
\* the scan recovers from the generated code is the operation's key, also
\* for a placeholder path whose operation declares no path parameter.
C14_UrlMatchesKey ==
    \A p \in ScrapedPairs(GeneratedFiles) :
        \E i \in DOMAIN names : Named(i) /\ p = << KeyAt(i), names[i] >>

(***************************************************************************)
(* _build_short_name called directly on paths of a few segments.           *)
(***************************************************************************)
MaxSegments == 2

ShortSegments ==
    { << "u","s","e","r","s" >>, << "l","i","s","t" >>, << "p","a","g","e" >>, << "s","a","v","e" >>, << "d","e","l","e","t","e" >>, << "r","e","m","o","v","e" >>, << "d","e","l" >>,
      << "c","o","p","y" >>, << "b","y","I","d" >>, << "b","y","A","l","i","a","s" >>, << "d","e","t","a","i","l" >>, << "i","n","f","o" >>, << "s","e","a","r","c","h" >>, << "a","p","i" >>,
      << "{","i","d","}" >> }

ShortMethods == { << "g","e","t" >>, << "p","o","s","t" >>, << "p","u","t" >>, << "p","a","t","c","h" >>, << "d","e","l","e","t","e" >>, << "h","e","a","d" >> }

\* '/' + '/'.join(segments)
PathOf(segments) == << "/" >> \o Join(segments, << "/" >>)

ShortPaths ==
    { PathOf(segments) :
        segments \in UNION { [ 1..n -> ShortSegments ] : n \in 0..MaxSegments } }

ShortNameInit == InitWith({ << >> }, "short", [ o \in {} |-> Derived(Pool[o]) ])

\* one call _build_short_name(path, method)
CallBuildShortName ==
    /\ pc = "short"
    /\ ~last.called
    /\ \E path \in ShortPaths, method \in ShortMethods :
           last' = [ called |-> TRUE,
                     args |-> [ module |-> << >>, path |-> path, method |-> method,
                                operation_id |-> << >> ],
                     plan |-> NoPlan, before |-> EmptyNaming,
                     name |-> build_short_name(path, method) ]
    /\ UNCHANGED << existing_mappings, module_func_names, global_func_names,
                    operation_types, generated_interfaces, modules, mapping_file,
                    module_files, types_file, pc, run, doc, pos, names, exports,
                    emitted, loaded, first, kept, damaged, added, ops, typevars >>

ShortNameNext == CallBuildShortName

ShortNameSpec == ShortNameInit /\ [][ShortNameNext]_vars

\* the last segment left after dropping generic and placeholder segments
LastToken(path) ==
    LET tokens == PathTokens(path)
    IN  IF tokens = << >> THEN << >> ELSE tokens[Len(tokens)]

\* the verb the statement gives for an action token in last position
StatedVerbs ==
    [ t \in { << "l","i","s","t" >>, << "p","a","g","e" >>, << "s","a","v","e" >>, << "d","e","l","e","t","e" >>, << "r","e","m","o","v","e" >>, << "d","e","l" >>, << "c","o","p","y" >>,
              << "b","y","I","d" >>, << "b","y","A","l","i","a","s" >>, << "d","e","t","a","i","l" >>, << "i","n","f","o" >> } |->
        IF t \in { << "d","e","l","e","t","e" >>, << "r","e","m","o","v","e" >>, << "d","e","l" >> } THEN << "d","e","l","e","t","e" >>
        ELSE IF t \in { << "b","y","I","d" >>, << "b","y","A","l","i","a","s" >>, << "d","e","t","a","i","l" >>, << "i","n","f","o" >> } THEN << "g","e","t" >>
        ELSE t ]

\* C15: the verb prefix of a path-derived name is fixed by the last segment
\* left after dropping generic and placeholder segments: list, page, save, copy
\* give themselves, delete/remove/del give delete, byId/byAlias/detail/info give
\* get, whatever the HTTP method; only when that segment is not an action token
\* is the prefix the one of the HTTP method.
C15_PrefixFromLastSegment ==
    (pc = "short" /\ last.called) =>
        LET token == LastToken(last.args.path)
        IN  /\ token \in DOMAIN StatedVerbs => StartsWith(last.name, StatedVerbs[token])
            /\ token \notin ActionTokens =>
                   StartsWith(last.name, MethodPrefix(last.args.method))

(***************************************************************************)
(* _build_function_name called directly on operations whose candidates     *)
(* collide: ListPath has all four candidates, and the operationIds of the  *)
(* other operations are those candidates and the first numeric suffix.     *)
(***************************************************************************)
ListPath == << "/","a","/","u","s","e","r","s","/","{","i","d","}","/","l","i","s","t" >>

FallbackArgs ==
    { [ module |-> << "U","s","e","r" >>, path |-> << "/","x" >>, method |-> << "g","e","t" >>, operation_id |-> << "l","i","s","t","U","s","e","r","s" >> ],
      [ module |-> << "U","s","e","r" >>, path |-> << "/","x" >>, method |-> << "p","o","s","t" >>, operation_id |-> << "l","i","s","t","A","U","s","e","r","s" >> ],
      [ module |-> << "U","s","e","r" >>, path |-> << "/","x" >>, method |-> << "p","u","t" >>, operation_id |-> << "l","i","s","t","U","s","e","r","s","B","y","I","d" >> ],
      [ module |-> << "U","s","e","r" >>, path |-> << "/","x" >>, method |-> << "d","e","l","e","t","e" >>, operation_id |-> << "l","i","s","t","U","s","e","r","s","L","i","s","t" >> ],
      [ module |-> << "U","s","e","r" >>, path |-> << "/","x" >>, method |-> << "p","a","t","c","h" >>, operation_id |-> << "l","i","s","t","U","s","e","r","s","2" >> ],
      [ module |-> << "U","s","e","r" >>, path |-> ListPath, method |-> << "g","e","t" >>, operation_id |-> << >> ],
      [ module |-> << "O","r","d","e","r" >>, path |-> ListPath, method |-> << "p","o","s","t" >>, operation_id |-> << >> ] }

FallbackPlans ==
    [ args \in FallbackArgs |->
        [ plan |-> NamePlan(args.module, args.path, args.method, args.operation_id) ] ]

FallbackInit == InitWith({ << >> }, "fallback", FallbackPlans)

\* one call _build_function_name(module, path, method, operation_id); the
\* calls of a run are not bounded, the names an operation can get are
CallWithCollisions ==
    /\ pc = "fallback"
    /\ \E args \in FallbackArgs :
           LET plan == ops[args].plan
               r == build_function_name(NamingState, plan)
           IN  /\ existing_mappings' = r.st.existing_mappings
               /\ module_func_names' = r.st.module_func_names
               /\ global_func_names' = r.st.global_func_names
               /\ last' = [ called |-> TRUE, args |-> args, plan |-> plan,
                            before |-> NamingState, name |-> r.name ]
    /\ UNCHANGED << operation_types, generated_interfaces, modules, mapping_file,
                    module_files, types_file, pc, run, doc, pos, names, exports,
                    emitted, loaded, first, kept, damaged, added, ops, typevars >>

FallbackNext == CallWithCollisions

FallbackSpec == FallbackInit /\ [][FallbackNext]_vars

\* the names in the module's used-name set or the global one before the last call
TakenBefore ==
    SeenOf(last.before, last.plan.module_key) \cup last.before.global_func_names

\* C16: without a registry hit the candidates are tried in a fixed order
\* (first candidate, prefix+parent+resource+suffix, prefix+resource+By<Params>,
\* prefix+last-two-segments+suffix) and the first one in neither used-name set
\* is returned; when all are taken the result is the first candidate followed
\* by the smallest i >= 2 that gives a name in neither set.  The name returned
\* was in neither set before the call.
C16_FirstFreeCandidate ==
    (last.called /\ ~LastHit) =>
        LET cands == << last.plan.base >> \o last.plan.fallbacks
            free == { i \in DOMAIN cands : cands[i] \notin TakenBefore }
        IN  /\ last.name \notin TakenBefore
            /\ free # {} =>
                   \E i \in free : /\ last.name = cands[i]
                                   /\ \A j \in 1..(i - 1) : cands[j] \in TakenBefore
            /\ free = {} =>
                   \E i \in 2..(Cardinality(TakenBefore) + 2) :
                       /\ last.name = last.plan.base \o IntToStr(i)
                       /\ \A k \in 2..(i - 1) :
                              last.plan.base \o IntToStr(k) \in TakenBefore
            /\ (last.args.path = ListPath /\ last.args.operation_id = << >>) =>
                   cands = << << "l","i","s","t","U","s","e","r","s" >>, << "l","i","s","t","A","U","s","e","r","s" >>, << "l","i","s","t","U","s","e","r","s","B","y","I","d" >>,
                              << "l","i","s","t","U","s","e","r","s","L","i","s","t" >> >>

\* C16 witness: the four candidates and the suffix 2 were all taken, and the
\* call returned the first candidate with the suffix 3
C16_Witness ==
    /\ pc = "fallback" /\ last.called /\ ~LastHit
    /\ last.args.path = ListPath
    /\ last.name = << "l","i","s","t","U","s","e","r","s","3" >>

\* the named schema has a property that refers to the schema itself
SelfReferential(name) ==
    LET properties == Schemas[Components[name]].properties
    IN  \E i \in DOMAIN properties :
            /\ HasRef(properties[i][2])
            /\ Schemas[properties[i][2]].ref = ComponentRef(name)

\* the response of the operation refers to a self-referential named schema
UsesSelfReferential(o) ==
    /\ Pool[o].response # NoNode
    /\ HasRef(Pool[o].response)
    /\ \E name \in DOMAIN Components :
           Schemas[Pool[o].response].ref = ComponentRef(name) /\ SelfReferential(name)

\* C17: collecting the named types of an operation terminates also when a
\* named schema refers to itself, and the operation is then generated as a
\* real function, not as the error stub.
C17_CyclicTypesCollected ==
    \A i \in DOMAIN exports :
        UsesSelfReferential(doc[i]) =>
            ~ops[doc[i]].used_types.raised /\ ~exports[i].stub

\* type_imports of a module: the collected names that were emitted as
\* interfaces, and the module's operation type aliases
type_imports(m) ==
    [ interfaces |-> m.types \cap generated_interfaces,
      aliases |-> m.operation_types ]

\* C18: in one run of generate_all_code on a fresh generator, every
\* per-operation type alias a module file imports from './types' was
\* registered when the types file was rendered, so the types file of the run
\* defines it.
C18_ImportedAliasesDefined ==
    pc = "done" =>
        \A m \in DOMAIN modules :
            \A t \in type_imports(modules[m]).aliases : t \in types_file

\* C19: no two functions emitted into the same module in one run are exported
\* under the same name, also when some operations fail and are emitted as
\* stubs: the name of a stub never equals the name of another function, real
\* or stub, of its module.
C19_ExportsDistinctInModule ==
    \A i, j \in DOMAIN exports :
        (i # j /\ Pool[doc[i]].module = Pool[doc[j]].module) =>
            exports[i].name # exports[j].name

\* C20: _build_function_name never changes or removes a registry entry that
\* exists when it is called and adds at most the entry of the key it names; so
\* the registry written at the end of a run holds every entry loaded at its
\* start, with the same name, also for operations no longer in the document.
C20_RegistryEntriesKept ==
    /\ last.called =>
           /\ \A k \in DOMAIN last.before.existing_mappings :
                  /\ k \in DOMAIN existing_mappings
                  /\ existing_mappings[k] = last.before.existing_mappings[k]
           /\ DOMAIN existing_mappings \subseteq
                  DOMAIN last.before.existing_mappings \cup { last.plan.existing_key }
    /\ pc = "done" =>
           \A k \in DOMAIN loaded :
               /\ FormatKey(k) \in DOMAIN mapping_file.data
               /\ mapping_file.data[FormatKey(k)] = loaded[k]

\* C20 witness: a second run over the kept output is complete, it named an
\* operation, and the registry it loaded holds an entry for an operation that
\* is no longer in the document
C20_Witness ==
    /\ run = 2 /\ kept /\ pc = "done" /\ last.called
    /\ \E k \in DOMAIN loaded : \A i \in DOMAIN doc : KeyAt(i) # k

(***************************************************************************)
(* Properties of the resolver on schemas that hold a boolean where a       *)
(* schema is expected.                                                     *)
(***************************************************************************)
\* C21: generate_typescript_type returns a type expression without raising
\* for every schema node of a parsed document, also for an object without
\* properties whose additionalProperties is the boolean true.
C21_NeverRaises ==
    (TypeFinished /\ troot \in Nodes) => tresult[troot] # Raised

(***************************************************************************)
(* Properties of the module files written for the tag groups.              *)
(***************************************************************************)
\* C22: every tag group with an operation gets its own module code holding
\* all of the group's functions: two distinct tags never share a module file
\* key, so no group's code replaces another's and no function of the
\* document is missing from the module files written.
C22_ModulePerTag ==
    pc = "done" =>
        /\ \A i, j \in DOMAIN modules :
               modules[i].file_key = modules[j].file_key => i = j
        /\ \A i \in DOMAIN modules :
               /\ modules[i].file_key \in DOMAIN module_files
               /\ module_files[modules[i].file_key] = modules[i].apis

=============================================================================
